---- MODULE Spec2Model ----
(***************************************************************************)
(* auto_explain: the four executor hooks (ExecutorStart, ExecutorRun,     *)
(* ExecutorFinish, ExecutorEnd), the module load / unload callbacks, the   *)
(* per-backend statics nesting_level and current_query_sampled, and the    *)
(* GUC variables, as a state machine.                                      *)
(*                                                                         *)
(* A handler that does not span nested executor calls (Start, End) is one  *)
(* action.  ExecutorRun and ExecutorFinish span the nested statements run  *)
(* inside the delegated call, so each is an enter action (up to and        *)
(* including the delegated call being made) and a return action (the rest  *)
(* of the PG_TRY block or the PG_CATCH block).                             *)
(***************************************************************************)
EXTENDS Integers, Sequences, FiniteSets, TLC

(* ---------------------------------------------------------------- bounds *)

\* query descriptors that can be alive at the same time
MaxStmts == 2
\* executor calls (Run / Finish) that can be in progress, one inside another
MaxDepth == 2
\* auto_explain.sample_rate takes the values k / RateDen, k in 0..RateDen
RateDen == 2
\* largest auto_explain.log_min_duration (msec) the model sets
MaxMinDuration == 1
\* longest rendered plan text, in characters
MaxLen == 4

(* ------------------------------------------------------------- constants *)

\* random() returns a value in 0 .. MAX_RANDOM_VALUE (2^31 - 1)
MAX_RANDOM_VALUE == 2147483647

NULL == "NULL"
Phases == {"Start", "Run", "Finish", "End"}

\* queryDesc->instrument_options bits
INSTRUMENT_TIMER == "TIMER"
INSTRUMENT_BUFFERS == "BUFFERS"
INSTRUMENT_ROWS == "ROWS"
InstrumentBits == {INSTRUMENT_TIMER, INSTRUMENT_BUFFERS, INSTRUMENT_ROWS}

\* format_options
EXPLAIN_FORMAT_TEXT == "text"
EXPLAIN_FORMAT_XML == "xml"
EXPLAIN_FORMAT_JSON == "json"
EXPLAIN_FORMAT_YAML == "yaml"
format_options ==
    {EXPLAIN_FORMAT_TEXT, EXPLAIN_FORMAT_XML, EXPLAIN_FORMAT_JSON, EXPLAIN_FORMAT_YAML}

\* errors a delegated executor call can raise
Errors == {"e1", "e2"}
Outcomes == {"ok"} \cup Errors

\* values random() returns in the model: both ends of its range and the middle
RandomValues ==
    {0, MAX_RANDOM_VALUE \div 2, (MAX_RANDOM_VALUE \div 2) + 1, MAX_RANDOM_VALUE}
\* random() was not called
NoRandom == 0 - 1

\* totaltime->total after InstrEndLoop, in microseconds
ElapsedUs == {0, 999, 1000}

(* ----------------------------------------------------------------- state *)

VARIABLES
    \* GUC variables
    auto_explain_log_min_duration,
    auto_explain_log_analyze,
    auto_explain_log_verbose,
    auto_explain_log_buffers,
    auto_explain_log_triggers,
    auto_explain_log_timing,
    auto_explain_log_format,
    auto_explain_log_nested_statements,
    auto_explain_sample_rate,      \* numerator k of k / RateDen
    \* statics of the module
    nesting_level,
    current_query_sampled,
    prev,                          \* prev_ExecutorStart .. prev_ExecutorEnd
    \* the engine
    hook,                          \* ExecutorStart_hook .. ExecutorEnd_hook
    latePrev,                      \* what an observer loaded later captured
    lifecycle,                     \* "absent", "loaded", "unloaded"
    preLoad,                       \* the hook slots as they were when _PG_init ran
    qd,                            \* the live query descriptors
    stack,                         \* executor calls in progress, innermost last
    last                           \* what the last engine call did

gucs ==
    <<auto_explain_log_min_duration, auto_explain_log_analyze, auto_explain_log_verbose,
      auto_explain_log_buffers, auto_explain_log_triggers, auto_explain_log_timing,
      auto_explain_log_format, auto_explain_log_nested_statements,
      auto_explain_sample_rate>>

hooks == <<prev, hook, latePrev, lifecycle, preLoad>>

vars == <<gucs, nesting_level, current_query_sampled, hooks, qd, stack, last>>

Stmts == 1 .. MaxStmts

\* a query descriptor slot nobody uses
NoQuery ==
    [live |-> FALSE, level |-> 0, instrument_options |-> {}, totaltime |-> FALSE,
     drawn |-> "na"]

\* the record of an engine call: which call, on which descriptor, whether this
\* module's handler ran (via), and what the handler read and did; steps is what
\* the handler did in the order it did it; rendered is es->str as the EXPLAIN
\* functions left it, len is es->str->len after the newline trim, written the
\* offsets in es->str->data the JSON fixup stored to, str the text logged
NoObs ==
    [event |-> "none", q |-> 0, via |-> FALSE, enabled |-> FALSE,
     levelBefore |-> 0, levelAfter |-> 0, drew |-> FALSE, random |-> NoRandom,
     sampled |-> FALSE,
     calls |-> <<>>, thrown |-> "ok", outcome |-> "ok",
     optsBefore |-> {}, optsAfter |-> {}, ttBefore |-> FALSE, allocated |-> FALSE,
     total |-> 0, reports |-> <<>>,
     explainOnly |-> FALSE, steps |-> <<>>,
     rendered |-> <<>>, len |-> 0, written |-> <<>>, str |-> <<>>]

(* ------------------------------------------------- the module's own code *)

\* auto_explain_enabled() without the test of the nesting depth
auto_explain_enabled_AnyDepth == auto_explain_log_min_duration >= 0

\* auto_explain_enabled(): logging is on, and this is a top-level statement or
\* nested statements are logged too
auto_explain_enabled ==
    /\ auto_explain_log_min_duration >= 0
    /\ (nesting_level = 0 \/ auto_explain_log_nested_statements)

\* auto_explain_sample_rate * MAX_RANDOM_VALUE, rounded up to an integer: for an
\* integer r, r < x and r < ceiling(x) are the same.  The rate is
\* auto_explain_sample_rate / RateDen; the product is taken in two parts so that
\* no intermediate value exceeds MAX_RANDOM_VALUE.
SampleLimit ==
    LET whole == MAX_RANDOM_VALUE \div RateDen
        rest == MAX_RANDOM_VALUE % RateDen
    IN  auto_explain_sample_rate * whole
            + ((auto_explain_sample_rate * rest + RateDen - 1) \div RateDen)

\* the comparison with <= in place of <
RandomBelowRate_Inclusive(r) == r <= SampleLimit

\* random() < auto_explain_sample_rate * MAX_RANDOM_VALUE
RandomBelowRate(r) == r < SampleLimit

\* the test before the draw without the test of log_min_duration
StartDraws_AnyDuration == nesting_level = 0

\* explain_ExecutorStart decides the sampling only for a top-level statement
StartDraws == auto_explain_log_min_duration >= 0 /\ nesting_level = 0

\* current_query_sampled after the first statement of explain_ExecutorStart
StartSampled(r) == IF StartDraws THEN RandomBelowRate(r) ELSE current_query_sampled

\* the first block of explain_ExecutorStart without the test of
\* EXEC_FLAG_EXPLAIN_ONLY
StartInstrumentOptions_IgnoresExplainOnly(opts, explainOnly, sampled) ==
    IF auto_explain_enabled /\ sampled
    THEN IF auto_explain_log_analyze
         THEN opts
                \cup (IF auto_explain_log_timing
                      THEN {INSTRUMENT_TIMER} ELSE {INSTRUMENT_ROWS})
                \cup (IF auto_explain_log_buffers THEN {INSTRUMENT_BUFFERS} ELSE {})
         ELSE opts
    ELSE opts

\* queryDesc->instrument_options after the first block of explain_ExecutorStart
StartInstrumentOptions(opts, explainOnly, sampled) ==
    IF auto_explain_enabled /\ sampled
    THEN IF auto_explain_log_analyze /\ ~explainOnly
         THEN opts
                \cup (IF auto_explain_log_timing
                      THEN {INSTRUMENT_TIMER} ELSE {INSTRUMENT_ROWS})
                \cup (IF auto_explain_log_buffers THEN {INSTRUMENT_BUFFERS} ELSE {})
         ELSE opts
    ELSE opts

\* explain_ExecutorStart enters the block that sets instrumentation bits
StartInstruments(explainOnly, sampled) ==
    /\ auto_explain_enabled /\ sampled
    /\ auto_explain_log_analyze /\ ~explainOnly

\* explain_ExecutorStart allocates queryDesc->totaltime after the delegated
\* call, when there is none yet (TRUE: this call allocates)
StartAllocates(totaltime, sampled) ==
    auto_explain_enabled /\ sampled /\ ~totaltime

\* explain_ExecutorStart with InstrAlloc ahead of the delegated call
StartSteps_AllocFirst(draws, instruments, calls, res, allocates) ==
    (IF draws THEN <<"random">> ELSE <<>>)
        \o (IF instruments THEN <<"instrument_options">> ELSE <<>>)
        \o (IF allocates THEN <<"InstrAlloc">> ELSE <<>>)
        \o calls

\* the statements of explain_ExecutorStart in the order it executes them: the
\* draw, the instrumentation bits, the delegated call and, when that call
\* returns (an error leaves the handler at once), the allocation of totaltime
StartSteps(draws, instruments, calls, res, allocates) ==
    (IF draws THEN <<"random">> ELSE <<>>)
        \o (IF instruments THEN <<"instrument_options">> ELSE <<>>)
        \o calls
        \o (IF res = "ok" /\ allocates THEN <<"InstrAlloc">> ELSE <<>>)

\* the call each handler delegates to: the saved hook if there is one, else
\* the standard function
next_ExecutorStart ==
    IF prev["Start"] # NULL THEN <<prev["Start"]>> ELSE <<"standard">>

\* the delegation of explain_ExecutorRun with the else dropped: the standard
\* function is called after the saved hook
next_ExecutorRun_NoElse ==
    IF prev["Run"] # NULL THEN <<prev["Run"], "standard">> ELSE <<"standard">>

next_ExecutorRun ==
    IF prev["Run"] # NULL THEN <<prev["Run"]>> ELSE <<"standard">>

next_ExecutorFinish ==
    IF prev["Finish"] # NULL THEN <<prev["Finish"]>> ELSE <<"standard">>

next_ExecutorEnd ==
    IF prev["End"] # NULL THEN <<prev["End"]>> ELSE <<"standard">>

\* a PG_CATCH block that leaves nesting_level as it is
RunCatchLevel_NoDecrement(level) == level

\* nesting_level in explain_ExecutorRun: at entry, at the end of the PG_TRY
\* block, in the PG_CATCH block
RunEnterLevel(level) == level + 1
RunTryLevel(level) == level - 1
RunCatchLevel(level) == level - 1

\* explain_ExecutorFinish without the increment at entry
FinishEnterLevel_NoIncrement(level) == level

\* the same in explain_ExecutorFinish
FinishEnterLevel(level) == level + 1
FinishTryLevel(level) == level - 1
FinishCatchLevel(level) == level - 1

\* a PG_CATCH block that ends without PG_RE_THROW()
PG_RE_THROW_Swallowed(e) == "ok"

\* PG_RE_THROW(): the error that left the delegated call leaves the handler
PG_RE_THROW(e) == e

\* the duration test with > in place of >=
DurationExceeded_Strict(total) == total > auto_explain_log_min_duration * 1000

\* msec >= auto_explain_log_min_duration, msec = totaltime->total * 1000.0;
\* total is in microseconds here, so both sides are multiplied by 1000
DurationExceeded(total) == total >= auto_explain_log_min_duration * 1000

\* the ExplainState with es->buffers taken from the GUC alone
ExplainOptions_BuffersUngated(opts, total) ==
    LET analyze == (opts # {}) /\ auto_explain_log_analyze
    IN  [analyze |-> analyze,
         verbose |-> auto_explain_log_verbose,
         buffers |-> auto_explain_log_buffers,
         timing |-> analyze /\ auto_explain_log_timing,
         summary |-> analyze,
         format |-> auto_explain_log_format,
         triggers |-> analyze /\ auto_explain_log_triggers,
         usec |-> total]

\* the ExplainState explain_ExecutorEnd fills in, and whether it prints the
\* trigger statistics
ExplainOptions(opts, total) ==
    LET analyze == (opts # {}) /\ auto_explain_log_analyze
    IN  [analyze |-> analyze,
         verbose |-> auto_explain_log_verbose,
         buffers |-> analyze /\ auto_explain_log_buffers,
         timing |-> analyze /\ auto_explain_log_timing,
         summary |-> analyze,
         format |-> auto_explain_log_format,
         triggers |-> analyze /\ auto_explain_log_triggers,
         usec |-> total]

\* the log records explain_ExecutorEnd emits for a query descriptor
EndReports(desc, total) ==
    IF desc.totaltime /\ auto_explain_enabled /\ current_query_sampled
    THEN IF DurationExceeded(total)
         THEN <<ExplainOptions(desc.instrument_options, total)>>
         ELSE <<>>
    ELSE <<>>

\* the trim without the test of the last character
TrimNewline_Unconditional(s) ==
    IF Len(s) > 0 THEN SubSeq(s, 1, Len(s) - 1) ELSE s

\* "Remove last line break": es->str after the trim
TrimNewline(s) ==
    IF Len(s) > 0 /\ s[Len(s)] = "\n" THEN SubSeq(s, 1, Len(s) - 1) ELSE s

\* "Fix JSON to output an object": the offsets in es->str->data the block
\* stores to, in order, for a buffer s of length es->str->len
JsonFixupWrites(s) ==
    IF auto_explain_log_format = EXPLAIN_FORMAT_JSON
    THEN <<0, Len(s) - 1>>
    ELSE <<>>

\* the buffer after the two stores, when both fall inside it
JsonFixup(s) ==
    LET first == [s EXCEPT ![1] = "{"]
    IN  [first EXCEPT ![Len(s)] = "}"]

\* A store outside data[0 .. len - 1] is undefined.  With len = 0 the store at
\* offset 0 replaces the terminating zero byte, so the text printed with %s is
\* '{' and whatever bytes follow up to a zero byte; the store at offset -1
\* lands in the allocator's header of the buffer, so pfree() of the buffer
\* may end the backend before the delegated call.
UndefinedTails == {<<>>, <<"x">>}

\* es->str after the trim and the fixup, as ereport and pfree find it: len is
\* es->str->len, written the offsets stored to, str the text logged, crashed
\* whether the handler ended before the delegated call
EndPostProcess(rendered) ==
    LET s == TrimNewline(rendered)
        w == JsonFixupWrites(s)
    IN  IF \A i \in 1 .. Len(w) : w[i] \in 0 .. (Len(s) - 1)
        THEN {[len |-> Len(s), written |-> w,
               str |-> IF w # <<>> THEN JsonFixup(s) ELSE s,
               crashed |-> FALSE]}
        ELSE {[len |-> Len(s), written |-> w,
               str |-> <<"{">> \o tail, crashed |-> c] :
                    tail \in UndefinedTails, c \in BOOLEAN}

\* no report, so no buffer
NoPostProcess == [len |-> 0, written |-> <<>>, str |-> <<>>, crashed |-> FALSE]

\* explain_ExecutorEnd with the report after the delegated call
EndSteps_ReportLast(reports, crashed, calls) ==
    (IF crashed THEN <<>> ELSE calls)
        \o [i \in 1 .. Len(reports) |-> "ereport"]

\* the statements of explain_ExecutorEnd in the order it executes them: the
\* report, when there is one, then the delegated call
EndSteps(reports, crashed, calls) ==
    [i \in 1 .. Len(reports) |-> "ereport"]
        \o (IF crashed THEN <<>> ELSE calls)

(* ------------------------------------------------------------ the engine *)

\* the hook slot of phase p leads to this module's handler, directly or
\* through the observer loaded after it
Reaches(p) ==
    \/ hook[p] = "explain"
    \/ hook[p] = "late" /\ latePrev[p] = "explain"

\* an observer loaded before this module runs inside the delegated call
EarlyInChain(p) ==
    IF Reaches(p)
    THEN prev[p] = "early"
    ELSE hook[p] = "early" \/ (hook[p] = "late" /\ latePrev[p] = "early")

\* an observer loaded after this module runs around this module's handler
LateInChain(p) == hook[p] = "late"

Idle == stack = <<>> /\ \A q \in Stmts : ~qd[q].live

\* the descriptors created inside the innermost call in progress
Children == {q \in Stmts : qd[q].live /\ qd[q].level >= Len(stack)}

InitialOptions == {{}, {INSTRUMENT_ROWS}}

\* the characters of a rendered plan: the brackets of the JSON array, the line
\* break, and any other character
RenderedChars == {"[", "]", "\n", "x"}

\* what ExplainBeginOutput .. ExplainEndOutput leave in es->str: any text of at
\* most MaxLen characters
Rendered == UNION {[1 .. n -> RenderedChars] : n \in 0 .. MaxLen}

\* the shortest plan the EXPLAIN functions render in each format: the JSON one
\* is an array, and every one ends with a line break
Rendering ==
    IF auto_explain_log_format = EXPLAIN_FORMAT_JSON
    THEN <<"[", "x", "]", "\n">>
    ELSE <<"x", "\n">>

(* ------------------------------------------------------------------ Init *)

\* the GUC variables a top-level End handler reads, at every value; a top-level
\* statement does not read log_nested_statements, and the rate is such that
\* statements are sampled and not sampled
ReportGUC ==
    /\ auto_explain_log_min_duration \in -1 .. MaxMinDuration
    /\ auto_explain_log_analyze \in BOOLEAN
    /\ auto_explain_log_verbose \in BOOLEAN
    /\ auto_explain_log_buffers \in BOOLEAN
    /\ auto_explain_log_triggers \in BOOLEAN
    /\ auto_explain_log_timing \in BOOLEAN
    /\ auto_explain_log_format \in format_options
    /\ auto_explain_log_nested_statements = FALSE
    /\ auto_explain_sample_rate = 1

\* the GUC variables that decide what the Start and End handlers do, at every
\* value; the ones that only shape the report (verbose, triggers, format) at
\* their boot values
GateGUC ==
    /\ auto_explain_log_min_duration \in -1 .. MaxMinDuration
    /\ auto_explain_log_analyze \in BOOLEAN
    /\ auto_explain_log_verbose = FALSE
    /\ auto_explain_log_buffers \in BOOLEAN
    /\ auto_explain_log_triggers = FALSE
    /\ auto_explain_log_timing \in BOOLEAN
    /\ auto_explain_log_format = EXPLAIN_FORMAT_TEXT
    /\ auto_explain_log_nested_statements \in BOOLEAN
    /\ auto_explain_sample_rate \in 0 .. RateDen

\* one configuration: every plan is logged, with ANALYZE, nested statements
\* too, for a fraction 1 / RateDen of the top-level statements
LoggingGUC ==
    /\ auto_explain_log_min_duration = 0
    /\ auto_explain_log_analyze = TRUE
    /\ auto_explain_log_verbose = FALSE
    /\ auto_explain_log_buffers = FALSE
    /\ auto_explain_log_triggers = FALSE
    /\ auto_explain_log_timing = TRUE
    /\ auto_explain_log_format = EXPLAIN_FORMAT_TEXT
    /\ auto_explain_log_nested_statements = TRUE
    /\ auto_explain_sample_rate = 1

\* the statics as the C initialisers leave them, and no statement yet
Boot ==
    /\ nesting_level = 0
    /\ current_query_sampled = TRUE
    /\ latePrev = [p \in Phases |-> NULL]
    /\ qd = [q \in Stmts |-> NoQuery]
    /\ stack = <<>>
    /\ last = NoObs

\* the library is not loaded: each hook slot is empty or holds the handler of
\* an observer loaded earlier
Absent ==
    /\ hook \in [Phases -> {NULL, "early"}]
    /\ prev = [p \in Phases |-> NULL]
    /\ preLoad = [p \in Phases |-> NULL]
    /\ lifecycle = "absent"

\* _PG_init has run in a backend where slots held `before`
Loaded(before) ==
    /\ hook = [p \in Phases |-> "explain"]
    /\ prev = before
    /\ preLoad = before
    /\ lifecycle = "loaded"

\* nested and overlapping statements, one logging configuration
Init == LoggingGUC /\ Boot /\ Loaded([p \in Phases |-> "early"])

\* one statement at a time, every report configuration
InitOne == ReportGUC /\ Boot /\ Loaded([p \in Phases |-> "early"])

\* a top-level statement and one statement inside its run, every gate
\* configuration
InitNested == GateGUC /\ Boot /\ Loaded([p \in Phases |-> "early"])

\* every plan of a top-level statement is logged, in each format
FormatGUC ==
    /\ auto_explain_log_min_duration = 0
    /\ auto_explain_log_analyze = FALSE
    /\ auto_explain_log_verbose = FALSE
    /\ auto_explain_log_buffers = FALSE
    /\ auto_explain_log_triggers = FALSE
    /\ auto_explain_log_timing = TRUE
    /\ auto_explain_log_format \in format_options
    /\ auto_explain_log_nested_statements = FALSE
    /\ auto_explain_sample_rate = RateDen

\* one statement at a time, every rendered text in every format
InitReport == FormatGUC /\ Boot /\ Loaded([p \in Phases |-> NULL])

\* load, unload and other observers, one logging configuration
InitHooks == LoggingGUC /\ Boot /\ Absent

(* --------------------------------------------------------------- actions *)

\* _PG_init: save the four hooks and install the handlers
PG_init ==
    /\ lifecycle = "absent"
    /\ Idle
    /\ prev' = hook
    /\ hook' = [p \in Phases |-> "explain"]
    /\ preLoad' = hook
    /\ lifecycle' = "loaded"
    /\ last' = NoObs
    /\ UNCHANGED <<gucs, nesting_level, current_query_sampled, latePrev, qd, stack>>

\* _PG_fini that leaves alone a slot that no longer holds this module's handler
PG_fini_KeepsLater ==
    /\ lifecycle = "loaded"
    /\ Idle
    /\ hook' = [p \in Phases |-> IF hook[p] = "explain" THEN prev[p] ELSE hook[p]]
    /\ lifecycle' = "unloaded"
    /\ last' = NoObs
    /\ UNCHANGED <<gucs, nesting_level, current_query_sampled, prev, latePrev,
                   preLoad, qd, stack>>

\* _PG_fini without the assignment to ExecutorEnd_hook
PG_fini_ForgetsEnd ==
    /\ lifecycle = "loaded"
    /\ Idle
    /\ hook' = [prev EXCEPT !["End"] = hook["End"]]
    /\ lifecycle' = "unloaded"
    /\ last' = NoObs
    /\ UNCHANGED <<gucs, nesting_level, current_query_sampled, prev, latePrev,
                   preLoad, qd, stack>>

\* _PG_fini: put the saved hooks back
PG_fini ==
    /\ lifecycle = "loaded"
    /\ Idle
    /\ hook' = prev
    /\ lifecycle' = "unloaded"
    /\ last' = NoObs
    /\ UNCHANGED <<gucs, nesting_level, current_query_sampled, prev, latePrev,
                   preLoad, qd, stack>>

\* another observer is loaded after this module and hooks one phase
LateInstall(p) ==
    /\ lifecycle = "loaded"
    /\ Idle
    /\ \A x \in Phases : hook[x] # "late"
    /\ latePrev' = [latePrev EXCEPT ![p] = hook[p]]
    /\ hook' = [hook EXCEPT ![p] = "late"]
    /\ last' = NoObs
    /\ UNCHANGED <<gucs, nesting_level, current_query_sampled, prev, lifecycle,
                   preLoad, qd, stack>>

\* the engine starts a statement: explain_ExecutorStart when the hook leads to it
ExecutorStart(q, explainOnly, opts0, r, res, otherAlloc) ==
    /\ ~qd[q].live
    /\ \A j \in 1 .. (q - 1) : qd[j].live
    /\ otherAlloc => (res = "ok" /\ (EarlyInChain("Start") \/ LateInChain("Start")))
    /\ r = NoRandom <=> ~(Reaches("Start") /\ StartDraws)
    /\ LET via == Reaches("Start")
       IN  LET sampled == IF via THEN StartSampled(r) ELSE current_query_sampled
               opts1 == IF via
                        THEN StartInstrumentOptions(opts0, explainOnly, sampled)
                        ELSE opts0
               ttEarly == otherAlloc /\ EarlyInChain("Start")
               alloc == via /\ res = "ok" /\ StartAllocates(ttEarly, sampled)
               ttEnd == ttEarly \/ alloc \/ (otherAlloc /\ LateInChain("Start"))
           IN  /\ current_query_sampled' = sampled
               /\ qd' = IF res = "ok"
                        THEN [qd EXCEPT ![q] =
                                [live |-> TRUE, level |-> Len(stack),
                                 instrument_options |-> opts1,
                                 totaltime |-> ttEnd,
                                 drawn |-> IF ~(via /\ StartDraws) THEN "na"
                                           ELSE IF sampled THEN "yes" ELSE "no"]]
                        ELSE qd
               /\ last' = [NoObs EXCEPT
                             !.event = "Start", !.q = q, !.via = via,
                             !.enabled = via /\ auto_explain_enabled,
                             !.levelBefore = nesting_level,
                             !.levelAfter = nesting_level,
                             !.drew = via /\ StartDraws,
                             !.random = r,
                             !.sampled = sampled,
                             !.calls = IF via THEN next_ExecutorStart ELSE <<>>,
                             !.thrown = res, !.outcome = res,
                             !.optsBefore = opts0, !.optsAfter = opts1,
                             !.ttBefore = ttEarly, !.allocated = alloc,
                             !.explainOnly = explainOnly,
                             !.steps =
                                IF via
                                THEN StartSteps(StartDraws,
                                                StartInstruments(explainOnly, sampled),
                                                next_ExecutorStart, res,
                                                StartAllocates(ttEarly, sampled))
                                ELSE <<>>]
    /\ UNCHANGED <<gucs, nesting_level, hooks, stack>>

\* the engine runs a statement: explain_ExecutorRun up to the delegated call
ExecutorRunEnter(q) ==
    /\ Len(stack) < MaxDepth
    /\ qd[q].live /\ qd[q].level = Len(stack)
    /\ LET via == Reaches("Run")
       IN  /\ nesting_level' = IF via THEN RunEnterLevel(nesting_level)
                               ELSE nesting_level
           /\ stack' = Append(stack,
                  [q |-> q, phase |-> "Run", via |-> via,
                   entryLevel |-> nesting_level,
                   calls |-> IF via THEN next_ExecutorRun ELSE <<>>])
           /\ last' = [NoObs EXCEPT !.event = "RunEnter", !.q = q, !.via = via]
    /\ UNCHANGED <<gucs, current_query_sampled, hooks, qd>>

\* the delegated call of explain_ExecutorRun returns or raises
ExecutorRunReturn(res) ==
    /\ stack # <<>>
    /\ stack[Len(stack)].phase = "Run"
    /\ res = "ok" => Children = {}
    /\ LET top == stack[Len(stack)]
           level == IF ~top.via THEN nesting_level
                    ELSE IF res = "ok" THEN RunTryLevel(nesting_level)
                    ELSE RunCatchLevel(nesting_level)
       IN  /\ nesting_level' = level
           /\ qd' = [q \in Stmts |->
                       IF q \in Children \/ (q = top.q /\ res # "ok")
                       THEN NoQuery ELSE qd[q]]
           /\ last' = [NoObs EXCEPT
                         !.event = "RunReturn", !.q = top.q, !.via = top.via,
                         !.levelBefore = top.entryLevel, !.levelAfter = level,
                         !.calls = top.calls, !.thrown = res,
                         !.outcome = IF top.via /\ res # "ok"
                                     THEN PG_RE_THROW(res) ELSE res]
    /\ stack' = SubSeq(stack, 1, Len(stack) - 1)
    /\ UNCHANGED <<gucs, current_query_sampled, hooks>>

\* the engine finishes a statement: explain_ExecutorFinish up to the delegated call
ExecutorFinishEnter(q) ==
    /\ Len(stack) < MaxDepth
    /\ qd[q].live /\ qd[q].level = Len(stack)
    /\ LET via == Reaches("Finish")
       IN  /\ nesting_level' = IF via THEN FinishEnterLevel(nesting_level)
                               ELSE nesting_level
           /\ stack' = Append(stack,
                  [q |-> q, phase |-> "Finish", via |-> via,
                   entryLevel |-> nesting_level,
                   calls |-> IF via THEN next_ExecutorFinish ELSE <<>>])
           /\ last' = [NoObs EXCEPT !.event = "FinishEnter", !.q = q, !.via = via]
    /\ UNCHANGED <<gucs, current_query_sampled, hooks, qd>>

\* the delegated call of explain_ExecutorFinish returns or raises
ExecutorFinishReturn(res) ==
    /\ stack # <<>>
    /\ stack[Len(stack)].phase = "Finish"
    /\ res = "ok" => Children = {}
    /\ LET top == stack[Len(stack)]
           level == IF ~top.via THEN nesting_level
                    ELSE IF res = "ok" THEN FinishTryLevel(nesting_level)
                    ELSE FinishCatchLevel(nesting_level)
       IN  /\ nesting_level' = level
           /\ qd' = [q \in Stmts |->
                       IF q \in Children \/ (q = top.q /\ res # "ok")
                       THEN NoQuery ELSE qd[q]]
           /\ last' = [NoObs EXCEPT
                         !.event = "FinishReturn", !.q = top.q, !.via = top.via,
                         !.levelBefore = top.entryLevel, !.levelAfter = level,
                         !.calls = top.calls, !.thrown = res,
                         !.outcome = IF top.via /\ res # "ok"
                                     THEN PG_RE_THROW(res) ELSE res]
    /\ stack' = SubSeq(stack, 1, Len(stack) - 1)
    /\ UNCHANGED <<gucs, current_query_sampled, hooks>>

\* the engine ends a statement: explain_ExecutorEnd when the hook leads to it;
\* rendered is what the EXPLAIN functions leave in es->str if they are called
ExecutorEnd(q, total, rendered) ==
    /\ qd[q].live /\ qd[q].level = Len(stack)
    /\ total # 0 => qd[q].totaltime
    /\ LET via == Reaches("End")
           reports == IF via THEN EndReports(qd[q], total) ELSE <<>>
       IN  \E pp \in (IF reports # <<>>
                      THEN EndPostProcess(rendered) ELSE {NoPostProcess}) :
             LET calls == IF via /\ ~pp.crashed THEN next_ExecutorEnd ELSE <<>>
             IN  last' = [NoObs EXCEPT
                      !.event = "End", !.q = q, !.via = via,
                      !.enabled = via /\ auto_explain_enabled,
                      !.levelBefore = nesting_level,
                      !.levelAfter = nesting_level,
                      !.sampled = current_query_sampled,
                      !.calls = calls,
                      !.outcome = IF pp.crashed THEN "crash" ELSE "ok",
                      !.optsBefore = qd[q].instrument_options,
                      !.optsAfter = qd[q].instrument_options,
                      !.ttBefore = qd[q].totaltime,
                      !.total = total, !.reports = reports,
                      !.steps = IF via
                                THEN EndSteps(reports, pp.crashed, next_ExecutorEnd)
                                ELSE <<>>,
                      !.rendered = IF reports # <<>> THEN rendered ELSE <<>>,
                      !.len = pp.len, !.written = pp.written, !.str = pp.str]
    /\ qd' = [qd EXCEPT ![q] = NoQuery]
    /\ UNCHANGED <<gucs, nesting_level, current_query_sampled, hooks, stack>>

\* The engine's calls.  A started statement may be run, finished and ended in
\* any order and any number of times, which includes the orders the engine
\* uses; statements at the same level may overlap (cursors).

\* nested and overlapping statements; callers ask for no instrumentation
Next ==
    \/ \E q \in Stmts, explainOnly \in BOOLEAN, opts0 \in {{}},
          r \in {0, MAX_RANDOM_VALUE, NoRandom}, res \in Outcomes,
          otherAlloc \in BOOLEAN :
            ExecutorStart(q, explainOnly, opts0, r, res, otherAlloc)
    \/ \E q \in Stmts : ExecutorRunEnter(q)
    \/ \E res \in Outcomes : ExecutorRunReturn(res)
    \/ \E q \in Stmts : ExecutorFinishEnter(q)
    \/ \E res \in Outcomes : ExecutorFinishReturn(res)
    \/ \E q \in Stmts, total \in ElapsedUs : ExecutorEnd(q, total, Rendering)

\* one statement at a time
NextOne ==
    \/ \E explainOnly \in BOOLEAN, opts0 \in InitialOptions,
          r \in {0, MAX_RANDOM_VALUE, NoRandom}, res \in Outcomes,
          otherAlloc \in BOOLEAN :
            ExecutorStart(1, explainOnly, opts0, r, res, otherAlloc)
    \/ ExecutorRunEnter(1)
    \/ \E res \in Outcomes : ExecutorRunReturn(res)
    \/ ExecutorFinishEnter(1)
    \/ \E res \in Outcomes : ExecutorFinishReturn(res)
    \/ \E total \in ElapsedUs : ExecutorEnd(1, total, Rendering)

\* statement 1 at top level, statement 2 only inside a call on statement 1; one
\* error, and elapsed times of 0 and 1 ms
NextNested ==
    \/ \E q \in {1, 2}, explainOnly \in BOOLEAN, opts0 \in InitialOptions,
          r \in RandomValues \cup {NoRandom}, res \in {"ok", "e1"},
          otherAlloc \in BOOLEAN :
            /\ q = 2 => stack # <<>>
            /\ ExecutorStart(q, explainOnly, opts0, r, res, otherAlloc)
    \/ stack = <<>> /\ ExecutorRunEnter(1)
    \/ \E res \in {"ok", "e1"} : ExecutorRunReturn(res)
    \/ stack = <<>> /\ ExecutorFinishEnter(1)
    \/ \E res \in {"ok", "e1"} : ExecutorFinishReturn(res)
    \/ \E q \in {1, 2}, total \in {0, 1000} : ExecutorEnd(q, total, Rendering)

\* one statement at a time, with load, unload and a later observer
NextHooks ==
    \/ PG_init
    \/ PG_fini
    \/ \E p \in Phases : LateInstall(p)
    \/ \E explainOnly \in BOOLEAN, opts0 \in InitialOptions,
          r \in {0, MAX_RANDOM_VALUE, NoRandom}, res \in Outcomes,
          otherAlloc \in BOOLEAN :
            ExecutorStart(1, explainOnly, opts0, r, res, otherAlloc)
    \/ ExecutorRunEnter(1)
    \/ \E res \in Outcomes : ExecutorRunReturn(res)
    \/ ExecutorFinishEnter(1)
    \/ \E res \in Outcomes : ExecutorFinishReturn(res)
    \/ \E total \in ElapsedUs : ExecutorEnd(1, total, Rendering)

\* one sampled statement at a time, every text the EXPLAIN functions may leave
NextReport ==
    \/ \E res \in Outcomes : ExecutorStart(1, FALSE, {}, 0, res, FALSE)
    \/ \E rendered \in Rendered : ExecutorEnd(1, 0, rendered)

Spec == Init /\ [][Next]_vars
SpecReport == InitReport /\ [][NextReport]_vars
SpecOne == InitOne /\ [][NextOne]_vars
SpecNested == InitNested /\ [][NextNested]_vars
SpecHooks == InitHooks /\ [][NextHooks]_vars

(* ---------------------------------------------------------------- claims *)

PhaseEvents == {"Start", "RunEnter", "RunReturn", "FinishEnter", "FinishReturn", "End"}
ReturnEvents == {"RunReturn", "FinishReturn"}

\* the phase a handler event belongs to
PhaseOf(event) ==
    CASE event = "Start" -> "Start"
      [] event \in {"RunEnter", "RunReturn"} -> "Run"
      [] event \in {"FinishEnter", "FinishReturn"} -> "Finish"
      [] OTHER -> "End"

\* what the slot of phase p held when _PG_init ran, or the standard function
CapturedOrStandard(p) == IF preLoad[p] # NULL THEN preLoad[p] ELSE "standard"

\* C1: when explain_ExecutorRun or explain_ExecutorFinish returns or re-raises,
\* nesting_level is what it was when that handler was entered, whether the
\* delegated call failed or not; with no executor call in progress it is back
\* at its value before the outermost statement started.
C1_DepthRestored ==
    /\ (last.event \in ReturnEvents /\ last.via)
            => last.levelAfter = last.levelBefore
    /\ stack = <<>> => nesting_level = 0

\* an inner Finish handler, entered at depth 1, re-raises and leaves depth 1
C1_Witness ==
    /\ last.event = "FinishReturn" /\ last.via
    /\ last.thrown # "ok"
    /\ last.levelBefore = 1 /\ last.levelAfter = 1
    /\ Len(stack) = 1

\* C2: a statement started inside the Run or Finish call of a top-level
\* statement that drew a sampling outcome does not draw, and its Start and End
\* handlers read the outcome that top-level statement drew at its own Start.
C2_NestedSharesTopLevelOutcome ==
    (/\ last.event \in {"Start", "End"}
     /\ last.via
     /\ last.levelBefore > 0
     /\ stack # <<>>
     /\ qd[stack[1].q].drawn # "na")
        => (~last.drew /\ (last.sampled <=> qd[stack[1].q].drawn = "yes"))

\* C3: with sample_rate = 1.0 and logging on, a top-level Start draws and sets
\* current_query_sampled to true, whatever random() returned.
C3_RateOneAlwaysSamples ==
    (/\ last.event = "Start"
     /\ last.via
     /\ last.levelBefore = 0
     /\ auto_explain_log_min_duration >= 0
     /\ auto_explain_sample_rate = RateDen)
        => (last.drew /\ last.sampled /\ current_query_sampled)

\* C4: with sample_rate = 0.0 and logging on, a top-level Start draws and sets
\* current_query_sampled to false, whatever random() returned, 0 included.
C4_RateZeroNeverSamples ==
    (/\ last.event = "Start"
     /\ last.via
     /\ last.levelBefore = 0
     /\ auto_explain_log_min_duration >= 0
     /\ auto_explain_sample_rate = 0)
        => (last.drew /\ ~last.sampled /\ ~current_query_sampled)

\* random() returned 0 at rate 0.0 and the statement is not sampled
C4_Witness ==
    /\ last.event = "Start" /\ last.via /\ last.levelBefore = 0
    /\ auto_explain_sample_rate = 0
    /\ last.drew /\ last.random = 0
    /\ ~current_query_sampled

\* C5: with log_nested_statements off, a Start or End handler that runs at
\* nesting depth > 0 adds no instrumentation bit, allocates no totaltime and
\* emits no report.
C5_NestedNotLogged ==
    (/\ last.event \in {"Start", "End"}
     /\ last.via
     /\ last.levelBefore > 0
     /\ ~auto_explain_log_nested_statements)
        => (/\ last.optsAfter = last.optsBefore
            /\ ~last.allocated
            /\ last.reports = <<>>)

\* a nested End with logging on, the statement sampled, a totaltime that
\* another observer allocated and an elapsed time above the threshold
C5_Witness ==
    /\ last.event = "End" /\ last.via /\ last.levelBefore > 0
    /\ ~auto_explain_log_nested_statements
    /\ auto_explain_log_min_duration = 0
    /\ auto_explain_log_analyze
    /\ last.sampled /\ last.ttBefore /\ last.total = 1000
    /\ last.reports = <<>>

\* C6: after _PG_init then _PG_fini each hook slot holds what it held before
\* _PG_init, and an executor call made then does not run this module's
\* handler: no depth change, no draw, no instrumentation, no report.
C6_UnloadRestores ==
    lifecycle = "unloaded"
        => (/\ hook = preLoad
            /\ nesting_level = 0
            /\ last.event \in PhaseEvents
                => (/\ ~last.via
                    /\ last.calls = <<>>
                    /\ last.levelAfter = last.levelBefore
                    /\ ~last.drew
                    /\ last.optsAfter = last.optsBefore
                    /\ ~last.allocated
                    /\ last.reports = <<>>))

\* unloaded with a mixed set of slots, and an End call that went to the earlier
\* observer's handler
C6_Witness ==
    /\ lifecycle = "unloaded"
    /\ last.event = "End"
    /\ hook["End"] = "early" /\ hook["Run"] = NULL
    /\ last.ttBefore

\* C7: every invocation of the four handlers makes one delegated call: to the
\* hook saved by _PG_init when there was one, else to the standard function.
C7_DelegatesOnce ==
    /\ (last.via /\ last.event \in PhaseEvents \ {"RunEnter", "FinishEnter"})
            => last.calls = <<CapturedOrStandard(PhaseOf(last.event))>>
    /\ \A i \in 1 .. Len(stack) :
            stack[i].via => stack[i].calls = <<CapturedOrStandard(stack[i].phase)>>

\* a Run handler with no saved hook called the standard function, in a backend
\* where the Start slot did hold a handler
C7_Witness ==
    /\ last.event = "RunReturn" /\ last.via
    /\ preLoad["Run"] = NULL /\ preLoad["Start"] = "early"
    /\ last.calls = <<"standard">>

\* C8: when the call delegated by explain_ExecutorRun or explain_ExecutorFinish
\* raises, the handler raises that same error, with nesting_level restored.
C8_FailurePropagates ==
    (last.event \in ReturnEvents /\ last.via /\ last.thrown # "ok")
        => (last.outcome = last.thrown /\ nesting_level = last.levelBefore)

\* the Run handler of a nested statement re-raised e2
C8_Witness ==
    /\ last.event = "RunReturn" /\ last.via
    /\ last.thrown = "e2" /\ last.outcome = "e2"
    /\ last.levelBefore = 1 /\ nesting_level = 1

\* C9: an End handler that finds a totaltime, with auto_explain_enabled() and
\* the statement sampled, emits a report exactly when the elapsed time is at
\* least log_min_duration milliseconds; with log_min_duration = 0 it always does.
C9_DurationGate ==
    (last.event = "End" /\ last.via /\ last.ttBefore /\ last.enabled /\ last.sampled)
        => (/\ (last.reports # <<>>)
                    <=> (last.total >= 1000 * auto_explain_log_min_duration)
            /\ auto_explain_log_min_duration = 0 => last.reports # <<>>)

\* elapsed time equal to the threshold of 1 ms: a report
C9_Witness ==
    /\ last.event = "End" /\ last.via
    /\ auto_explain_log_min_duration = 1
    /\ last.total = 1000
    /\ last.reports # <<>>

\* C10: the options of an emitted report: analyze = (any instrumentation bit
\* set) and log_analyze; verbose = log_verbose; buffers = analyze and
\* log_buffers; timing = analyze and log_timing; summary = analyze; format =
\* log_format; trigger statistics iff analyze and log_triggers.
C10_ReportOptions ==
    (last.event = "End" /\ last.reports # <<>>)
        => LET es == last.reports[1]
               analyze == (last.optsBefore # {}) /\ auto_explain_log_analyze
           IN  /\ Len(last.reports) = 1
               /\ es.analyze = analyze
               /\ es.verbose = auto_explain_log_verbose
               /\ es.buffers = (analyze /\ auto_explain_log_buffers)
               /\ es.timing = (analyze /\ auto_explain_log_timing)
               /\ es.summary = analyze
               /\ es.format = auto_explain_log_format
               /\ es.triggers = (analyze /\ auto_explain_log_triggers)
               /\ ~auto_explain_log_analyze
                    => ~(es.analyze \/ es.buffers \/ es.timing \/ es.summary)

\* a report for a statement with an instrumentation bit set while log_analyze
\* is off and log_buffers, log_timing are on
C10_Witness ==
    /\ last.event = "End" /\ last.reports # <<>>
    /\ last.optsBefore # {}
    /\ ~auto_explain_log_analyze
    /\ auto_explain_log_buffers /\ auto_explain_log_timing
    /\ auto_explain_log_format = EXPLAIN_FORMAT_JSON

\* C11: the instrumentation bits explain_ExecutorStart adds: none unless
\* auto_explain_enabled(), the statement is sampled, log_analyze is on and
\* EXEC_FLAG_EXPLAIN_ONLY is clear; otherwise TIMER when log_timing is on, ROWS
\* when it is off, and BUFFERS exactly when log_buffers is on.  Bits already
\* set stay set.
C11_StartInstrumentation ==
    (last.event = "Start" /\ last.via)
        => LET enabled == /\ auto_explain_log_min_duration >= 0
                          /\ (last.levelBefore = 0
                                \/ auto_explain_log_nested_statements)
               on == /\ enabled /\ last.sampled
                     /\ auto_explain_log_analyze /\ ~last.explainOnly
               added == IF ~on THEN {}
                        ELSE (IF auto_explain_log_timing
                              THEN {INSTRUMENT_TIMER} ELSE {INSTRUMENT_ROWS})
                                \cup (IF auto_explain_log_buffers
                                      THEN {INSTRUMENT_BUFFERS} ELSE {})
           IN  /\ last.optsAfter = last.optsBefore \cup added
               /\ last.optsBefore \subseteq last.optsAfter

\* a nested statement whose caller asked for row counts, log_timing off and
\* log_buffers on: BUFFERS is added, ROWS stays, TIMER is not set
C11_Witness ==
    /\ last.event = "Start" /\ last.via /\ last.levelBefore > 0
    /\ auto_explain_log_nested_statements /\ auto_explain_log_analyze
    /\ ~auto_explain_log_timing /\ auto_explain_log_buffers
    /\ last.sampled /\ ~last.explainOnly
    /\ last.optsBefore = {INSTRUMENT_ROWS}
    /\ last.optsAfter = {INSTRUMENT_ROWS, INSTRUMENT_BUFFERS}

\* C12: while log_min_duration = -1, at any depth: no call changes
\* current_query_sampled; a Start handler calls no random(), sets no
\* instrumentation bit and allocates no totaltime; an End handler emits no
\* report; every handler makes its delegated call and nothing else, and Run and
\* Finish leave nesting_level as they found it.
C12_DisabledDoesNothing ==
    [][auto_explain_log_min_duration = -1
        => /\ current_query_sampled' = current_query_sampled
           /\ (last'.event \in {"Start", "End"} /\ last'.via)
                => /\ ~last'.drew /\ last'.random = NoRandom
                   /\ last'.optsAfter = last'.optsBefore
                   /\ ~last'.allocated
                   /\ last'.reports = <<>>
                   /\ Len(last'.steps) = 1 /\ last'.steps = last'.calls
                   /\ nesting_level' = nesting_level
           /\ (last'.event \in ReturnEvents /\ last'.via)
                => /\ Len(last'.calls) = 1
                   /\ last'.levelAfter = last'.levelBefore]_vars

\* logging off: the End handler of a top-level statement that has a totaltime
\* (another observer's) and ran for 1 ms emits nothing
C12_Witness ==
    /\ auto_explain_log_min_duration = -1
    /\ last.event = "End" /\ last.via /\ last.levelBefore = 0
    /\ last.ttBefore /\ last.total = 1000
    /\ last.reports = <<>>
    /\ last.steps = <<"early">>

\* C13: the End handler of a top-level statement applies the sampling outcome
\* drawn at that statement's own Start, also when the Start .. End spans of
\* several top-level statements overlap.
C13_EndUsesOwnDraw ==
    [][(/\ last'.event = "End" /\ last'.via
        /\ last'.levelBefore = 0
        /\ qd[last'.q].level = 0
        /\ qd[last'.q].drawn # "na")
            => (last'.sampled <=> qd[last'.q].drawn = "yes")]_vars

C15_StartOrder ==
    (last.event = "Start" /\ last.via)
        => LET st == last.steps
               callsAt == {i \in 1 .. Len(st) : st[i] \in {"early", "standard"}}
               enabled == /\ auto_explain_log_min_duration >= 0
                          /\ (last.levelBefore = 0
                                \/ auto_explain_log_nested_statements)
           IN  /\ Cardinality(callsAt) = 1
               /\ \A i \in 1 .. Len(st), j \in callsAt :
                    /\ st[i] \in {"random", "instrument_options"} => i < j
                    /\ st[i] = "InstrAlloc" => j < i
               /\ last.drew <=> (\E i \in 1 .. Len(st) : st[i] = "random")
               /\ last.optsAfter # last.optsBefore
                    => (\E i \in 1 .. Len(st) : st[i] = "instrument_options")
               /\ last.allocated <=> (\E i \in 1 .. Len(st) : st[i] = "InstrAlloc")
               /\ last.allocated
                    => (/\ last.outcome = "ok"
                        /\ enabled /\ last.sampled
                        /\ ~last.ttBefore)

\* a sampled statement whose totaltime the earlier observer allocated inside
\* the delegated call: the handler allocates none
C15_Witness ==
    /\ last.event = "Start" /\ last.via
    /\ last.sampled /\ last.ttBefore /\ ~last.allocated
    /\ last.steps = <<"random", "instrument_options", "early">>

\* C16: the post-processing shortens es->str by one character exactly when it
\* ends with a line break (of two, one stays); in a format other than JSON
\* nothing else changes; a JSON text that starts with '[' and ends with ']'
\* and one line break comes out starting with '{', ending with '}', without
\* the line break, and with every character in between as it was.
C16_TrimAndJsonFixup ==
    (last.event = "End" /\ last.reports # <<>>)
        => LET s == last.rendered
               t == last.str
               n == Len(s)
               nl == n > 0 /\ s[n] = "\n"
           IN  /\ last.len = IF nl THEN n - 1 ELSE n
               /\ auto_explain_log_format # EXPLAIN_FORMAT_JSON
                    => t = SubSeq(s, 1, last.len)
               /\ (/\ auto_explain_log_format = EXPLAIN_FORMAT_JSON
                   /\ n >= 3 /\ nl
                   /\ s[1] = "[" /\ s[n - 1] = "]")
                    => (/\ Len(t) = n - 1
                        /\ t[1] = "{" /\ t[n - 1] = "}"
                        /\ \A i \in 2 .. (n - 2) : t[i] = s[i])

\* the JSON array [x] and its line break are logged as {x}
C16_Witness ==
    /\ last.event = "End" /\ last.reports # <<>>
    /\ auto_explain_log_format = EXPLAIN_FORMAT_JSON
    /\ last.rendered = <<"[", "x", "]", "\n">>
    /\ last.str = <<"{", "x", "}">>

\* C17: the first and last characters are rewritten to '{' and '}' only when
\* the format is JSON and the text, after the trim, starts with '[' and ends
\* with ']'; otherwise the text logged is the rendered text less the trimmed
\* line break.
C17_FixupOnlyArrayWrapped ==
    (last.event = "End" /\ last.reports # <<>>)
        => LET s == last.rendered
               n == Len(s)
               u == IF n > 0 /\ s[n] = "\n" THEN SubSeq(s, 1, n - 1) ELSE s
               wrapped == Len(u) > 0 /\ u[1] = "[" /\ u[Len(u)] = "]"
           IN  IF auto_explain_log_format = EXPLAIN_FORMAT_JSON /\ wrapped
               THEN last.str = [[u EXCEPT ![1] = "{"] EXCEPT ![Len(u)] = "}"]
               ELSE last.str = u

\* C18: nesting_level is never negative and is the number of
\* explain_ExecutorRun and explain_ExecutorFinish invocations that have been
\* entered and have neither returned nor re-raised.
C18_DepthCountsOpenCalls ==
    /\ nesting_level >= 0
    /\ nesting_level = Cardinality({i \in 1 .. Len(stack) : stack[i].via})

\* a Finish handler inside a Run handler has re-raised: one call is open
C18_Witness ==
    /\ last.event = "FinishReturn" /\ last.via /\ last.thrown = "e1"
    /\ Len(stack) = 1 /\ stack[1].phase = "Run" /\ stack[1].via
    /\ nesting_level = 1

\* C19: every offset the JSON fixup stores to lies in 0 .. len - 1, len being
\* es->str->len after the trim, for every text the EXPLAIN functions may leave,
\* the ones of length 0 or 1 after the trim included.
C19_FixupInBounds ==
    (last.event = "End" /\ last.reports # <<>>)
        => \A i \in 1 .. Len(last.written) :
                last.written[i] \in 0 .. (last.len - 1)

\* C20: _PG_fini stores the four saved hooks without looking at what the slots
\* hold: a slot another observer took after _PG_init holds, after _PG_fini,
\* what it held before _PG_init, and that observer's handler is out of the
\* slot.
C20_UnloadDropsLaterObserver ==
    lifecycle = "unloaded"
        => \A p \in Phases :
                latePrev[p] = "explain"
                    => (hook[p] = preLoad[p] /\ hook[p] # "late")

\* another observer hooked Run above this module; after the unload a Run call
\* goes straight to the earlier observer's handler
C20_Witness ==
    /\ lifecycle = "unloaded"
    /\ latePrev["Run"] = "explain"
    /\ hook["Run"] = "early"
    /\ last.event = "RunReturn" /\ ~last.via

====
